---- MODULE Spec2Model ----
(***************************************************************************)
(* vaultboy (src/vaultboy.go): conversion between .env / YAML documents    *)
(* and flat "Vault" JSON.  The module models                               *)
(*   - the key-path codec (parseArrayKey, strconv.Atoi, strings.Split),    *)
(*   - flatten and unflatten, with Go's unspecified map iteration order    *)
(*     as a nondeterministic choice,                                       *)
(*   - the command line runs main / runNormal / runReverse.                *)
(*                                                                         *)
(* Strings are sequences of one-character strings, so that splitting,      *)
(* suffix tests and integer parsing are computed, not assumed.             *)
(* A document value (Go interface{}) is a tagged record:                   *)
(*   [t |-> "n", v |-> 0]    nil (JSON / YAML null)                        *)
(*   [t |-> "s", v |-> i]    a scalar                                      *)
(*   [t |-> "l", v |-> seq]  []interface{}                                 *)
(*   [t |-> "m", v |-> f]    map[string]interface{}, f a function whose    *)
(*                           domain is a set of strings                    *)
(* A map[string]interface{} held in a typed variable (root, flat, out,     *)
(* current) is the bare function f.                                        *)
(***************************************************************************)
EXTENDS Integers, Sequences, FiniteSets, TLC

(***************************************************************************)
(* Bounds of the model.                                                    *)
(***************************************************************************)
MaxEntries == 3
MaxLen == 2
MaxKeys == 2
MaxInputs == 3

(***************************************************************************)
(* Document values.                                                        *)
(***************************************************************************)
Null == [t |-> "n", v |-> 0]
Scalar(i) == [t |-> "s", v |-> i]
List(s) == [t |-> "l", v |-> s]
Mapping(f) == [t |-> "m", v |-> f]
EmptyMap == <<>>

\* m[k] = v of Go: insert or overwrite.
Put(m, k, v) == [x \in (DOMAIN m) \cup {k} |-> IF x = k THEN v ELSE m[x]]

(***************************************************************************)
(* Strings.                                                                *)
(***************************************************************************)
Digits == <<"0", "1", "2", "3", "4", "5", "6", "7", "8", "9">>
IsDigit(c) == \E d \in 1..10 : Digits[d] = c
DigitVal(c) == (CHOOSE d \in 1..10 : Digits[d] = c) - 1

RECURSIVE DigitsVal(_)
DigitsVal(s) ==
  IF s = <<>> THEN 0
  ELSE 10 * DigitsVal(SubSeq(s, 1, Len(s) - 1)) + DigitVal(s[Len(s)])

\* strconv.Atoi: an optional sign, then one or more decimal digits.
\* (The range error of a value beyond 64 bits is out of reach of the
\* index texts used here.)
Atoi(s) ==
  LET signed == s # <<>> /\ s[1] \in {"+", "-"}
      body == IF signed THEN Tail(s) ELSE s
      good == body # <<>> /\ \A i \in 1..Len(body) : IsDigit(body[i])
  IN IF ~good THEN [err |-> TRUE, n |-> 0]
     ELSE [err |-> FALSE,
           n |-> IF signed /\ s[1] = "-" THEN 0 - DigitsVal(body)
                 ELSE DigitsVal(body)]

\* fmt.Sprintf("%d", n) for n >= 0.
RECURSIVE Itoa(_)
Itoa(n) ==
  IF n < 10 THEN <<Digits[n + 1]>>
  ELSE Itoa(n \div 10) \o <<Digits[(n % 10) + 1]>>

\* strings.Split(s, "."): every "." separates, empty segments are kept.
RECURSIVE Split(_)
Split(s) ==
  IF \A i \in 1..Len(s) : s[i] # "."
  THEN <<s>>
  ELSE LET d == CHOOSE i \in 1..Len(s) :
                  s[i] = "." /\ \A j \in 1..(i - 1) : s[j] # "."
       IN <<SubSeq(s, 1, d - 1)>> \o Split(SubSeq(s, d + 1, Len(s)))

\* strings.LastIndex(key, "["), 1-based; 0 when there is none.
LastIndex(key) ==
  IF \A i \in 1..Len(key) : key[i] # "[" THEN 0
  ELSE CHOOSE i \in 1..Len(key) :
         key[i] = "[" /\ \A j \in (i + 1)..Len(key) : key[j] # "["

(***************************************************************************)
(* parseArrayKey (Key-Path Codec, decoding).                               *)
(***************************************************************************)
parseArrayKey(key) ==
  LET plain == [key |-> key, idx |-> -1, isArray |-> FALSE]
  IN IF key # <<>> /\ key[Len(key)] = "]" /\ LastIndex(key) # 0
     THEN LET b == LastIndex(key)
              a == Atoi(SubSeq(key, b + 1, Len(key) - 1))
          IN IF ~a.err
             THEN [key |-> SubSeq(key, 1, b - 1), idx |-> a.n, isArray |-> TRUE]
             ELSE plain
     ELSE plain

(***************************************************************************)
(* unflatten: one iteration of the outer loop (one flat entry).            *)
(* The result is [ok, m]: ok = FALSE is a run-time panic (index out of     *)
(* range, or the failed type assertion of line 239).                       *)
(***************************************************************************)
Panic == [ok |-> FALSE, m |-> EmptyMap]
Ok(m) == [ok |-> TRUE, m |-> m]

\* for len(arr) <= idx { arr = append(arr, nil) }
RECURSIVE Grow(_, _)
Grow(arr, idx) == IF Len(arr) <= idx THEN Grow(Append(arr, Null), idx) ELSE arr

\* Lines 233-235: the slot of a non-terminal indexed segment.
EnsureSlotAlwaysFresh(x) == Mapping(EmptyMap)

EnsureSlot(x) == IF x = Null THEN Mapping(EmptyMap) ELSE x

RECURSIVE Walk(_, _, _)
Walk(current, parts, value) ==
  LET isLast == Len(parts) = 1
      p == parseArrayKey(Head(parts))
      key == p.key
      idx == p.idx
  IN IF p.isArray
     THEN LET existing == IF key \in DOMAIN current /\ current[key].t = "l"
                          THEN current[key].v ELSE <<>>
              arr == Grow(existing, idx)
          IN IF idx < 0 THEN Panic
             ELSE IF isLast
             THEN Ok(Put(current, key, List([arr EXCEPT ![idx + 1] = value])))
             ELSE LET slot == EnsureSlot(arr[idx + 1])
                  IN IF slot.t # "m" THEN Panic
                     ELSE LET sub == Walk(slot.v, Tail(parts), value)
                          IN IF ~sub.ok THEN Panic
                             ELSE Ok(Put(current, key,
                                     List([arr EXCEPT ![idx + 1] = Mapping(sub.m)])))
     ELSE IF isLast THEN Ok(Put(current, key, value))
     ELSE LET cur1 == IF key \in DOMAIN current THEN current
                      ELSE Put(current, key, Mapping(EmptyMap))
          IN IF cur1[key].t = "m"
             THEN LET sub == Walk(cur1[key].v, Tail(parts), value)
                  IN IF ~sub.ok THEN Panic
                     ELSE Ok(Put(cur1, key, Mapping(sub.m)))
             ELSE Walk(cur1, Tail(parts), value)

unflattenEntry(root, flatKey, value) == Walk(root, Split(flatKey), value)

(***************************************************************************)
(* unflatten over a whole flat mapping: the set of outcomes over every     *)
(* order in which `range flat` may deliver the entries.                    *)
(***************************************************************************)
RECURSIVE unflattenFrom(_, _, _)
unflattenFrom(flat, pend, res) ==
  IF ~res.ok \/ pend = {} THEN {res}
  ELSE UNION {unflattenFrom(flat, pend \ {k}, unflattenEntry(res.m, k, flat[k])) :
                k \in pend}

unflatten(flat) == unflattenFrom(flat, DOMAIN flat, Ok(EmptyMap))

(***************************************************************************)
(* flatten.  `range in` delivers the keys in an unspecified order, and     *)
(* out[key] = val overwrites: flattenMap is the set of the `out` mappings  *)
(* the call can leave, given the set `outs` it can start from.             *)
(***************************************************************************)
JoinKey(prefix, k) == IF prefix # <<>> THEN prefix \o <<".">> \o k ELSE k
ItemKeyOneBased(key, i) == key \o <<"[">> \o Itoa(i + 1) \o <<"]">>

ItemKey(key, i) == key \o <<"[">> \o Itoa(i) \o <<"]">>

RECURSIVE flattenMap(_, _, _, _)
RECURSIVE flattenValue(_, _, _)
RECURSIVE flattenList(_, _, _, _)

\* the body of `for k, v := range in`, for the keys `todo` not yet delivered
flattenMap(prefix, in, todo, outs) ==
  IF todo = {} THEN outs
  ELSE UNION {flattenMap(prefix, in, todo \ {k},
                         flattenValue(JoinKey(prefix, k), in[k], outs)) :
                k \in todo}

\* the type switch of lines 149-163
flattenValueKeepsEmpty(key, val, outs) ==
  CASE val.t = "m" /\ DOMAIN val.v # {} -> flattenMap(key, val.v, DOMAIN val.v, outs)
    [] val.t = "l" /\ val.v # <<>> -> flattenList(key, val.v, 0, outs)
    [] OTHER -> {Put(out, key, val) : out \in outs}

flattenValue(key, val, outs) ==
  CASE val.t = "m" -> flattenMap(key, val.v, DOMAIN val.v, outs)
    [] val.t = "l" -> flattenList(key, val.v, 0, outs)
    [] OTHER -> {Put(out, key, val) : out \in outs}

\* `for i, item := range val`, from position i (0-based) on
flattenList(key, items, i, outs) ==
  IF i >= Len(items) THEN outs
  ELSE LET item == items[i + 1]
           itemKey == ItemKey(key, i)
       IN flattenList(key, items, i + 1,
            IF item.t = "m"
            THEN flattenMap(itemKey, item.v, DOMAIN item.v, outs)
            ELSE {Put(out, itemKey, item) : out \in outs})

flatten(prefix, in, out) == flattenMap(prefix, in, DOMAIN in, {out})

(***************************************************************************)
(* State.                                                                  *)
(*   The transformation pipelines (reverse: flat -> unflatten -> flatten;  *)
(*   forward: document -> flatten [-> unflatten]):                         *)
(*     start    which pipeline this behaviour runs                         *)
(*     doc      the parsed nested document (forward)                       *)
(*     flat     the flat mapping (given, or produced by flatten)           *)
(*     pending  the entries of flat that `range flat` has not delivered    *)
(*     root     unflatten's root                                           *)
(*     last     the flatKey of the iteration just executed ({} if none)    *)
(*     out      flatten's output for root                                  *)
(*     phase    position in the pipeline                                   *)
(***************************************************************************)
VARIABLES start, doc, flat, pending, root, last, out, phase

varsRT == <<start, doc, flat, pending, root, last, out, phase>>

(***************************************************************************)
(* The command line run (main, runNormal, runReverse).                     *)
(*     reverse, inputs, output   the parsed flags -reverse, -i..., -o      *)
(*     diskOk     whether the output path can be created and written       *)
(*     pc         position in main                                         *)
(*     inputPos   runNormal's position in inputs                           *)
(*     acc        runNormal's accumulator `flat`                           *)
(*     parsedLog  the `parsed` mappings merged so far, in order            *)
(*     outFile    the output file: {} while absent, else {its content}     *)
(*     written    how many times the output file was written              *)
(*     printed    whether the confirmation line was printed                *)
(***************************************************************************)
VARIABLES reverse, inputs, output, diskOk, pc, inputPos, acc, parsedLog, outFile,
          written, printed

varsCLI == <<reverse, inputs, output, diskOk, pc, inputPos, acc, parsedLog, outFile,
             written, printed>>

vars == <<varsRT, varsCLI>>

\* The variables of the part that a specification does not run.
IdleRT ==
  /\ start = "none"
  /\ doc = EmptyMap
  /\ flat = EmptyMap
  /\ pending = {}
  /\ root = EmptyMap
  /\ last = {}
  /\ out = EmptyMap
  /\ phase = "idle"

IdleCLI ==
  /\ reverse = FALSE
  /\ inputs = <<>>
  /\ output = ".json"
  /\ diskOk = TRUE
  /\ pc = "idle"
  /\ inputPos = 0
  /\ acc = EmptyMap
  /\ parsedLog = <<>>
  /\ outFile = {}
  /\ written = 0
  /\ printed = FALSE

(***************************************************************************)
(* Inputs.                                                                 *)
(***************************************************************************)
ka == <<"a">>
kb == <<"b">>
Seg(name, idxText) == name \o <<"[">> \o idxText \o <<"]">>
Dot(p, q) == p \o <<".">> \o q

FlatKeys ==
  { ka, kb, Dot(ka, kb),
    Seg(ka, <<"0">>), Seg(ka, <<"1">>),
    Dot(Seg(ka, <<"0">>), kb), Dot(Seg(ka, <<"0">>), ka),
    Dot(Seg(ka, <<"1">>), kb),
    Dot(kb, Dot(Seg(ka, <<"1">>), kb)),
    Seg(ka, <<"x">>), Seg(ka, <<"-", "1">>), Seg(ka, <<"0", "0">>),
    Seg(ka, <<"+", "1">>) }

FlatVals == {Scalar(1), Null}

MapsOver(keys, vals, lo, hi) ==
  UNION {[d -> vals] : d \in {d \in SUBSET keys : Cardinality(d) \in lo..hi}}

FlatInputs == MapsOver(FlatKeys, FlatVals, 0, MaxEntries)

\* Documents as a YAML parser delivers them, pathological keys included:
\* a key holding a ".", a key that looks like an indexed segment, the
\* empty key; empty mappings and lists at every level.
GenKeys == {ka, kb, Dot(ka, kb), Seg(ka, <<"0">>), <<>>}

Leaves == {Scalar(1), Scalar(2), Mapping(EmptyMap), List(<<>>)}

GenVals ==
  Leaves
  \cup {Mapping(k :> x) : k \in {ka, kb}, x \in Leaves}
  \cup {List(<<x>>) : x \in {Scalar(1), Mapping(EmptyMap), List(<<>>),
                             Mapping(kb :> Scalar(2))}}
  \cup {List(<<Scalar(1), Mapping(EmptyMap)>>)}

GenDocs == MapsOver(GenKeys, GenVals, 0, MaxKeys)

\* Documents that map names to lists of mappings of scalars: one list
\* under "a" or under the empty name, or a list under "a" beside a scalar
\* or a second list under "b".
ElemMaps ==
  {Mapping(m) : m \in {m \in MapsOver({ka, kb}, {Scalar(1), Scalar(2)}, 1, 2) :
                         kb \in DOMAIN m => m[kb] = Scalar(1)}}

SeqsOver(S, lo, hi) == UNION {[1..n -> S] : n \in lo..hi}

ArrLists == {List(l) : l \in SeqsOver(ElemMaps, 1, MaxLen)}

ArrDocs ==
  {n :> l : n \in {ka, <<>>}, l \in ArrLists}
  \cup {(ka :> l) @@ (kb :> x) :
          l \in ArrLists,
          x \in {Scalar(2), Null, List(<<Mapping(ka :> Scalar(1))>>)}}

InitRT ==
  /\ IdleCLI
  /\ \/ /\ start = "flat"
        /\ flat \in FlatInputs
        /\ doc = EmptyMap
        /\ phase = "unflatten"
     \/ /\ start = "forward"
        /\ doc \in GenDocs
        /\ flat = EmptyMap
        /\ phase = "flatten"
     \/ /\ start = "roundtrip"
        /\ doc \in ArrDocs
        /\ flat = EmptyMap
        /\ phase = "flatten"
  /\ pending = DOMAIN flat
  /\ root = EmptyMap
  /\ last = {}
  /\ out = EmptyMap

(***************************************************************************)
(* flatten("", raw, flat) on the parsed document (detectAndParse, lines    *)
(* 98-100).                                                                *)
(***************************************************************************)
FlattenDoc ==
  /\ phase = "flatten"
  /\ \E o \in flatten(<<>>, doc, EmptyMap) :
       /\ flat' = o
       /\ pending' = DOMAIN o
  /\ phase' = IF start = "roundtrip" THEN "unflatten" ELSE "flattened"
  /\ UNCHANGED <<start, doc, root, last, out>>
  /\ UNCHANGED varsCLI

(***************************************************************************)
(* unflatten, one iteration of `for flatKey, value := range flat`.         *)
(***************************************************************************)
UnflattenEntry ==
  /\ phase = "unflatten"
  /\ \E flatKey \in pending :
       LET r == unflattenEntry(root, flatKey, flat[flatKey])
       IN /\ last' = {flatKey}
          /\ IF r.ok
             THEN /\ root' = r.m
                  /\ pending' = pending \ {flatKey}
                  /\ phase' = phase
             ELSE /\ phase' = "panic"
                  /\ UNCHANGED <<root, pending>>
  /\ UNCHANGED <<start, doc, flat, out>>
  /\ UNCHANGED varsCLI

\* `return root`
UnflattenReturn ==
  /\ phase = "unflatten"
  /\ pending = {}
  /\ phase' = IF start = "flat" THEN "reflatten" ELSE "done"
  /\ UNCHANGED <<start, doc, flat, pending, root, last, out>>
  /\ UNCHANGED varsCLI

\* flatten("", root, out) on the unflattened root
FlattenRoot ==
  /\ phase = "reflatten"
  /\ \E o \in flatten(<<>>, root, EmptyMap) : out' = o
  /\ phase' = "done"
  /\ UNCHANGED <<start, doc, flat, pending, root, last>>
  /\ UNCHANGED varsCLI

NextRT == FlattenDoc \/ UnflattenEntry \/ UnflattenReturn \/ FlattenRoot

SpecRT == InitRT /\ [][NextRT]_vars

(***************************************************************************)
(* The command line run: files, parsers, merge, writers.                   *)
(***************************************************************************)
\* A file on disk: the extension of its path, whether it can be read, the
\* format of its bytes, and its content in that format (the KEY=VALUE
\* lines of an env file; the document of a YAML or JSON file).
File(ext, readable, format, lines, content) ==
  [ext |-> ext, readable |-> readable, format |-> format,
   lines |-> lines, content |-> content]

Files ==
  { File(".env", TRUE, "env", <<<<ka, Scalar(1)>>>>, EmptyMap),
    File(".env", TRUE, "env", <<<<ka, Scalar(2)>>, <<kb, Scalar(1)>>, <<kb, Scalar(2)>>>>,
         EmptyMap),
    File(".env", FALSE, "env", <<>>, EmptyMap),
    File(".YAML", TRUE, "yaml", <<>>,
         (ka :> List(<<Mapping(kb :> Scalar(2))>>)) @@ (kb :> Scalar(1))),
    File(".yml", TRUE, "garbage", <<>>, EmptyMap),
    File(".json", TRUE, "json", <<>>,
         (Dot(Seg(ka, <<"0">>), kb) :> Scalar(1)) @@ (kb :> Scalar(2))),
    File(".json", TRUE, "json", <<>>,
         (Seg(ka, <<"0">>) :> Scalar(1)) @@ (Dot(Seg(ka, <<"0">>), kb) :> Scalar(2))) }

Outputs == {".json", ".env", ".yaml", ".yml", ".YML", ".txt"}

\* strings.ToLower(filepath.Ext(path)) over the extensions in use.
ToLowerExt(e) ==
  CASE e = ".YAML" -> ".yaml"
    [] e = ".YML" -> ".yml"
    [] e = ".ENV" -> ".env"
    [] OTHER -> e

Err == [err |-> TRUE, m |-> EmptyMap]
Parsed(m) == [err |-> FALSE, m |-> m]

\* parseEnvFile: result[key] = value for each line in turn.
RECURSIVE envLines(_, _)
envLines(lines, result) ==
  IF lines = <<>> THEN result
  ELSE envLines(Tail(lines), Put(result, Head(lines)[1], Head(lines)[2]))

parseEnvFile(f) == IF f.readable THEN Parsed(envLines(f.lines, EmptyMap)) ELSE Err

parseYAML(f) ==
  IF f.readable /\ f.format \in {"yaml", "json"} THEN Parsed(f.content) ELSE Err

parseJSON(f) ==
  IF f.readable /\ f.format = "json" THEN Parsed(f.content) ELSE Err

\* The set of results of detectAndParse (flatten's iteration order is open).
detectAndParse(f) ==
  LET ext == ToLowerExt(f.ext)
  IN CASE ext = ".env" -> {parseEnvFile(f)}
       [] ext \in {".yaml", ".yml"} ->
            IF parseYAML(f).err THEN {Err}
            ELSE {Parsed(o) : o \in flatten(<<>>, parseYAML(f).m, EmptyMap)}
       [] OTHER -> {Err}

\* for k, v := range parsed { flat[k] = v }
mergeFirstWins(flatAcc, parsed) ==
  [k \in DOMAIN flatAcc \cup DOMAIN parsed |->
     IF k \in DOMAIN flatAcc THEN flatAcc[k] ELSE parsed[k]]

merge(flatAcc, parsed) ==
  [k \in DOMAIN flatAcc \cup DOMAIN parsed |->
     IF k \in DOMAIN parsed THEN parsed[k] ELSE flatAcc[k]]

\* sort.Strings: byte-wise lexicographic order over the characters in use.
Alphabet == <<"+", "-", ".", "0", "1", "2", "3", "4", "5", "6", "7", "8", "9",
              "[", "]", "a", "b", "x">>
Ord(c) == CHOOSE n \in 1..Len(Alphabet) : Alphabet[n] = c

RECURSIVE StrLess(_, _)
StrLess(x, y) ==
  IF x = <<>> THEN y # <<>>
  ELSE IF y = <<>> THEN FALSE
  ELSE IF x[1] = y[1] THEN StrLess(Tail(x), Tail(y))
  ELSE Ord(x[1]) < Ord(y[1])

RECURSIVE sortedSeq(_)
sortedSeq(S) ==
  IF S = {} THEN <<>>
  ELSE LET least == CHOOSE x \in S : \A y \in S \ {x} : StrLess(x, y)
       IN <<least>> \o sortedSeq(S \ {least})

sortedKeys(m) == sortedSeq(DOMAIN m)

\* writeEnv's file content: one KEY="value" line per key, keys sorted.
envText(data) == [n \in 1..Len(sortedKeys(data)) |->
                    <<sortedKeys(data)[n], data[sortedKeys(data)[n]]>>]

Init ==
  /\ IdleRT
  /\ reverse \in BOOLEAN
  /\ inputs \in SeqsOver(Files, 0, MaxInputs)
  /\ output \in Outputs
  /\ diskOk \in BOOLEAN
  /\ pc = "main"
  /\ inputPos = 0
  /\ acc = EmptyMap
  /\ parsedLog = <<>>
  /\ outFile = {}
  /\ written = 0
  /\ printed = FALSE

\* main, lines 27-38: the checks on the flags and the dispatch.
Main ==
  /\ pc = "main"
  /\ IF Len(inputs) = 0 THEN pc' = "fatal"
     ELSE IF reverse
     THEN (IF Len(inputs) # 1 THEN pc' = "fatal" ELSE pc' = "runReverse")
     ELSE pc' = "runNormal"
  /\ inputPos' = 1
  /\ UNCHANGED <<reverse, inputs, output, diskOk, acc, parsedLog, outFile,
                 written, printed>>
  /\ UNCHANGED varsRT

\* runNormal, lines 44-52: one iteration of the loop over the inputs.
RunNormalParseSkipsFailure ==
  /\ pc = "runNormal"
  /\ inputPos <= Len(inputs)
  /\ \E r \in detectAndParse(inputs[inputPos]) :
       /\ acc' = merge(acc, r.m)
       /\ parsedLog' = IF r.err THEN parsedLog ELSE Append(parsedLog, r.m)
       /\ inputPos' = inputPos + 1
       /\ pc' = pc
  /\ UNCHANGED <<reverse, inputs, output, diskOk, outFile, written, printed>>
  /\ UNCHANGED varsRT

RunNormalParse ==
  /\ pc = "runNormal"
  /\ inputPos <= Len(inputs)
  /\ \E r \in detectAndParse(inputs[inputPos]) :
       IF r.err
       THEN /\ pc' = "fatal"
            /\ UNCHANGED <<acc, parsedLog, inputPos>>
       ELSE /\ acc' = merge(acc, r.m)
            /\ parsedLog' = Append(parsedLog, r.m)
            /\ inputPos' = inputPos + 1
            /\ pc' = pc
  /\ UNCHANGED <<reverse, inputs, output, diskOk, outFile, written, printed>>
  /\ UNCHANGED varsRT

\* runNormal, lines 54-60: marshal the accumulator and write the output.
\* (json.MarshalIndent does not fail on the values the parsers deliver here;
\* os.WriteFile fails when the output path cannot be written.)
RunNormalWrite ==
  /\ pc = "runNormal"
  /\ inputPos > Len(inputs)
  /\ IF diskOk
     THEN /\ outFile' = {[format |-> "json", data |-> acc]}
          /\ written' = written + 1
          /\ pc' = "print"
     ELSE /\ pc' = "fatal"
          /\ UNCHANGED <<outFile, written>>
  /\ UNCHANGED <<reverse, inputs, output, diskOk, inputPos, acc, parsedLog, printed>>
  /\ UNCHANGED varsRT

\* runReverse, lines 63-82.
RunReverse ==
  /\ pc = "runReverse"
  /\ LET data == parseJSON(inputs[1])
         ext == ToLowerExt(output)
     IN IF data.err THEN pc' = "fatal" /\ UNCHANGED <<outFile, written>>
        ELSE CASE ext = ".env" ->
                    IF diskOk
                    THEN /\ outFile' = {[format |-> "env", data |-> envText(data.m)]}
                         /\ written' = written + 1
                         /\ pc' = "print"
                    ELSE pc' = "fatal" /\ UNCHANGED <<outFile, written>>
               [] ext \in {".yaml", ".yml"} ->
                    \E nested \in unflatten(data.m) :
                      IF ~nested.ok
                      THEN pc' = "panic" /\ UNCHANGED <<outFile, written>>
                      ELSE IF diskOk
                      THEN /\ outFile' = {[format |-> "yaml", data |-> nested.m]}
                           /\ written' = written + 1
                           /\ pc' = "print"
                      ELSE pc' = "fatal" /\ UNCHANGED <<outFile, written>>
               [] OTHER -> pc' = "fatal" /\ UNCHANGED <<outFile, written>>
  /\ UNCHANGED <<reverse, inputs, output, diskOk, inputPos, acc, parsedLog, printed>>
  /\ UNCHANGED varsRT

\* main, line 39.
PrintDone ==
  /\ pc = "print"
  /\ printed' = TRUE
  /\ pc' = "exit"
  /\ UNCHANGED <<reverse, inputs, output, diskOk, inputPos, acc, parsedLog, outFile,
                 written>>
  /\ UNCHANGED varsRT

Next == Main \/ RunNormalParse \/ RunNormalWrite \/ RunReverse \/ PrintDone

Spec == Init /\ [][Next]_vars

(***************************************************************************)
(* Notions the properties are stated with.                                 *)
(***************************************************************************)
\* A segment of the form name[n], n a non-negative integer, as the
\* specification of the codec reads it.
IndexText(seg) == SubSeq(seg, LastIndex(seg) + 1, Len(seg) - 1)
IsIndexedSegment(seg) ==
  /\ seg # <<>>
  /\ seg[Len(seg)] = "]"
  /\ LastIndex(seg) # 0
  /\ ~Atoi(IndexText(seg)).err
  /\ Atoi(IndexText(seg)).n >= 0

ExpectedDecode(seg) ==
  IF IsIndexedSegment(seg)
  THEN [key |-> SubSeq(seg, 1, LastIndex(seg) - 1),
        idx |-> Atoi(IndexText(seg)).n, isArray |-> TRUE]
  ELSE [key |-> seg, idx |-> -1, isArray |-> FALSE]

\* The decoded path of a flat key.
Decode(k) == [i \in 1..Len(Split(k)) |-> parseArrayKey(Split(k)[i])]

Min(a, b) == IF a <= b THEN a ELSE b

\* First position at which two decoded paths differ; 0 when one is a
\* prefix of the other (or they are equal).
FirstDiff(d1, d2) ==
  LET n == Min(Len(d1), Len(d2))
  IN IF \A i \in 1..n : d1[i] = d2[i] THEN 0
     ELSE CHOOSE i \in 1..n : d1[i] # d2[i] /\ \A j \in 1..(i - 1) : d1[j] = d2[j]

\* Two entries disagree whether the name at a shared prefix holds a List.
ListDisagree(k1, k2) ==
  LET d1 == Decode(k1)
      d2 == Decode(k2)
      i == FirstDiff(d1, d2)
  IN i # 0 /\ d1[i].key = d2[i].key /\ d1[i].isArray # d2[i].isArray

\* Two entries address the same path, or one addresses a path through the
\* place the other assigns.
Overlap(k1, k2) == FirstDiff(Decode(k1), Decode(k2)) = 0

NoListDisagreement(f) ==
  \A k1, k2 \in DOMAIN f : k1 # k2 => ~ListDisagree(k1, k2)

ConflictFree(f) ==
  \A k1, k2 \in DOMAIN f : k1 # k2 => ~ListDisagree(k1, k2) /\ ~Overlap(k1, k2)

UnflattenDone == start = "flat" /\ phase \in {"panic", "reflatten", "done"}
Outcome == IF phase = "panic" THEN Panic ELSE Ok(root)

(***************************************************************************)
(* C2 (as stated).  Provided no two entries disagree about whether a       *)
(* shared path prefix is a Mapping or a List, every processing order of    *)
(* the entries gives the same nested result.  (Stated here for the flat    *)
(* mappings on which no order fails, so that a violation is a difference   *)
(* between two results and not a failure.)                                 *)
(***************************************************************************)
C2_OrderIndependentAsStated ==
  (UnflattenDone /\ NoListDisagreement(flat) /\ Panic \notin unflatten(flat))
    => unflatten(flat) = {Ok(root)}

(***************************************************************************)
(* C2 (amended).  Provided, in addition, that no two entries decode to     *)
(* the same path and no entry's path is a proper prefix of another's,      *)
(* every processing order has the same outcome: the same nested result,    *)
(* or a failure in every order.                                            *)
(***************************************************************************)
C2_OrderIndependent ==
  (UnflattenDone /\ ConflictFree(flat)) => unflatten(flat) = {Outcome}

C2_Witness ==
  /\ UnflattenDone
  /\ phase = "reflatten"
  /\ ConflictFree(flat)
  /\ \E k1, k2 \in DOMAIN flat :
       /\ k1 # k2
       /\ Len(Decode(k1)) = 2
       /\ Len(Decode(k2)) = 2
       /\ Decode(k1)[1] = Decode(k2)[1]
       /\ Decode(k1)[1].isArray

(***************************************************************************)
(* C3.  For a flat mapping whose keys have no "." and no trailing [n]      *)
(* index, and whose values are scalars, flatten(unflatten(m)) = m.         *)
(***************************************************************************)
PlainKey(k) == Len(Split(k)) = 1 /\ ~IsIndexedSegment(k)

C3_ScalarRoundTrip ==
  (start = "flat" /\ \A k \in DOMAIN flat : PlainKey(k))
    => (phase # "panic" /\ (phase = "done" => out = flat))

\* The same round trip over the keys parseArrayKey itself leaves whole.
ScalarRoundTripOnLiteralKeys ==
  (start = "flat"
     /\ \A k \in DOMAIN flat : Len(Split(k)) = 1 /\ ~parseArrayKey(k).isArray)
    => (phase # "panic" /\ (phase = "done" => out = flat))

(***************************************************************************)
(* C4.  For a document whose lists are non-empty and hold only non-empty   *)
(* mappings of scalars, flatten gives exactly the keys name[i].k with the  *)
(* element values, and unflatten of that flat mapping gives the document   *)
(* back.                                                                   *)
(***************************************************************************)
ElemKey(n, i, k) == n \o <<"[">> \o Itoa(i) \o <<"]", ".">> \o k

ArrLeaves(d) ==
  {<<n, n, d[n]>> : n \in {n \in DOMAIN d : d[n].t # "l"}}
  \cup UNION {UNION {{<<n, ElemKey(n, i - 1, k), d[n].v[i].v[k]>> :
                        k \in DOMAIN d[n].v[i].v} :
                     i \in 1..Len(d[n].v)} :
              n \in {n \in DOMAIN d : d[n].t = "l"}}

FlatIsArrLeaves ==
  /\ DOMAIN flat = {e[2] : e \in ArrLeaves(doc)}
  /\ \A e \in ArrLeaves(doc) : flat[e[2]] = e[3]

C4_ArrayRoundTrip ==
  start = "roundtrip"
    => /\ phase # "panic"
       /\ phase \in {"unflatten", "done"} => FlatIsArrLeaves
       /\ phase = "done" => root = doc

C4_Witness ==
  /\ start = "roundtrip"
  /\ phase = "done"
  /\ ka \in DOMAIN doc
  /\ Len(doc[ka].v) >= 2
  /\ doc[ka].v[1] # doc[ka].v[2]

(***************************************************************************)
(* C5.  parseArrayKey gives a segment array semantics exactly when it has  *)
(* the form name[n], n a non-negative integer; every other segment is      *)
(* returned whole, and unflatten stores it as a literal key.               *)
(***************************************************************************)
C5_SegmentDecoding ==
  \A k \in last :
    /\ \A i \in 1..Len(Split(k)) :
         parseArrayKey(Split(k)[i]) = ExpectedDecode(Split(k)[i])
    /\ (Len(Split(k)) = 1 /\ ~IsIndexedSegment(k))
         => (phase # "panic" /\ k \in DOMAIN root /\ root[k] = flat[k])

(***************************************************************************)
(* C9.  At a non-terminal segment that carries an index, whatever the      *)
(* slot holds, after the step it holds a Mapping and the walk descends     *)
(* without failing.                                                        *)
(***************************************************************************)
C9_SlotBecomesMapping ==
  \A k \in last :
    LET d == Decode(k)
    IN (Len(d) > 1 /\ d[1].isArray /\ \A i \in 1..Len(d) : d[i].isArray => d[i].idx >= 0)
         => /\ phase # "panic"
            /\ d[1].key \in DOMAIN root
            /\ root[d[1].key].t = "l"
            /\ root[d[1].key].v[d[1].idx + 1].t = "m"

(***************************************************************************)
(* C6.  An empty Mapping or List at a prefix contributes no entry.         *)
(***************************************************************************)
RECURSIVE EmptyPrefixesOfMap(_, _)
RECURSIVE EmptyPrefixesOf(_, _)
\* The prefixes at which a document holds an empty Mapping or List: a
\* top-level or nested value, or a list element that is an empty Mapping.
EmptyPrefixesOfMap(prefix, m) ==
  UNION {EmptyPrefixesOf(JoinKey(prefix, k), m[k]) : k \in DOMAIN m}

EmptyPrefixesOf(key, val) ==
  CASE val.t = "m" ->
         IF DOMAIN val.v = {} THEN {key} ELSE EmptyPrefixesOfMap(key, val.v)
    [] val.t = "l" ->
         IF val.v = <<>> THEN {key}
         ELSE UNION {IF val.v[i].t = "m"
                     THEN EmptyPrefixesOf(ItemKey(key, i - 1), val.v[i])
                     ELSE {} : i \in 1..Len(val.v)}
    [] OTHER -> {}

RECURSIVE MapKeysOf(_)
\* Every mapping key of a document, at every level.
MapKeysOf(val) ==
  CASE val.t = "m" ->
         DOMAIN val.v \cup UNION {MapKeysOf(val.v[k]) : k \in DOMAIN val.v}
    [] val.t = "l" -> UNION {MapKeysOf(val.v[i]) : i \in 1..Len(val.v)}
    [] OTHER -> {}

\* No mapping key is empty or holds one of the characters of the path
\* notation.
OrdinaryKeys(d) ==
  \A k \in MapKeysOf(Mapping(d)) :
    k # <<>> /\ \A i \in 1..Len(k) : k[i] \notin {".", "[", "]"}

(***************************************************************************)
(* C6 (as stated).  For every document, no key of flatten's output has     *)
(* the prefix of an empty Mapping or List as its full key.  (Stated for    *)
(* the documents without an empty key; with one, {"": {"b": 1}, "b": {}}   *)
(* violates it as well.)                                                   *)
(***************************************************************************)
C6_EmptyDroppedAsStated ==
  (start = "forward" /\ phase = "flattened" /\ <<>> \notin MapKeysOf(Mapping(doc)))
    => \A p \in EmptyPrefixesOfMap(<<>>, doc) : p \notin DOMAIN flat

(***************************************************************************)
(* C6 (amended).  For every document whose mapping keys are non-empty and  *)
(* free of ".", "[" and "]", no key of flatten's output has the prefix of  *)
(* an empty Mapping or List as its full key.                               *)
(***************************************************************************)
C6_EmptyDropped ==
  (start = "forward" /\ phase = "flattened" /\ OrdinaryKeys(doc))
    => \A p \in EmptyPrefixesOfMap(<<>>, doc) : p \notin DOMAIN flat

C6_Witness ==
  /\ start = "forward"
  /\ phase = "flattened"
  /\ OrdinaryKeys(doc)
  /\ DOMAIN flat # {}
  /\ \E p \in EmptyPrefixesOfMap(<<>>, doc) : Len(Split(p)) = 2

(***************************************************************************)
(* C10.  flatten is deterministic: the flat mapping does not depend on     *)
(* the order in which the keys of a mapping are iterated, also for a       *)
(* document whose keys hold a "." or a trailing [n].  (Stated for the      *)
(* documents without an empty key.)                                        *)
(***************************************************************************)
C10_FlattenDeterministic ==
  (start = "forward" /\ phase = "flattened" /\ <<>> \notin MapKeysOf(Mapping(doc)))
    => flatten(<<>>, doc, EmptyMap) = {flat}

\* The same over the documents whose keys are ordinary.
FlattenDeterministicOnOrdinaryKeys ==
  (start = "forward" /\ phase = "flattened" /\ OrdinaryKeys(doc))
    => flatten(<<>>, doc, EmptyMap) = {flat}

(***************************************************************************)
(* Notions for the command line run.                                       *)
(***************************************************************************)
\* An input that makes the forward run fail: unsupported extension, I/O
\* failure, or parse failure.
InputFails(f) ==
  \/ ToLowerExt(f.ext) \notin {".env", ".yaml", ".yml"}
  \/ ~f.readable
  \/ ToLowerExt(f.ext) \in {".yaml", ".yml"} /\ f.format \notin {"yaml", "json"}

FailingInputs == {j \in 1..Len(inputs) : InputFails(inputs[j])}
FirstFailing == CHOOSE j \in FailingInputs : \A j2 \in FailingInputs : j <= j2

\* The value of key k in the last mapping of the sequence that holds k.
LastHolder(log, k) ==
  CHOOSE n \in 1..Len(log) :
    k \in DOMAIN log[n] /\ \A n2 \in (n + 1)..Len(log) : k \notin DOMAIN log[n2]

LastWins(log) ==
  [k \in UNION {DOMAIN log[n] : n \in 1..Len(log)} |-> log[LastHolder(log, k)][k]]

(***************************************************************************)
(* C1.  Forward-mode merge is last-input-wins: the merged flat mapping     *)
(* has the union of the parsed inputs' keys, each with the value of the    *)
(* last input (in command-line order) that holds it; the merge itself      *)
(* never fails, and the file written holds the merged mapping.             *)
(***************************************************************************)
C1_MergeLastWins ==
  (~reverse /\ pc \in {"runNormal", "print", "exit", "fatal"})
    => /\ acc = LastWins(parsedLog)
       /\ Len(parsedLog) = inputPos - 1
       /\ (pc = "fatal" /\ Len(inputs) > 0)
            => \/ inputPos <= Len(inputs) /\ InputFails(inputs[inputPos])
               \/ inputPos > Len(inputs) /\ ~diskOk
       /\ written = 1 => outFile = {[format |-> "json", data |-> LastWins(parsedLog)]}

C1_Witness ==
  /\ ~reverse
  /\ pc = "exit"
  /\ Len(parsedLog) >= 2
  /\ \E k \in DOMAIN parsedLog[1] :
       /\ k \in DOMAIN parsedLog[2]
       /\ parsedLog[1][k] # parsedLog[2][k]
       /\ acc[k] = parsedLog[Len(parsedLog)][k]

(***************************************************************************)
(* C7.  In forward mode the output file is written at most once and only   *)
(* after every input was parsed successfully, in order; if an input        *)
(* fails, the run halts at it: no later input is processed, nothing is     *)
(* written and the confirmation is not printed.                            *)
(***************************************************************************)
C7_WriteOnlyAfterAllParsed ==
  ~reverse
    => /\ written <= 1
       /\ written = 1
            => (FailingInputs = {} /\ inputPos = Len(inputs) + 1
                  /\ Len(parsedLog) = Len(inputs))
       /\ printed => written = 1
       /\ FailingInputs # {}
            => /\ inputPos <= FirstFailing
               /\ written = 0
               /\ outFile = {}
               /\ ~printed
               /\ pc \in {"main", "runNormal", "fatal"}
               /\ (pc = "runNormal" => inputPos <= FirstFailing)

C7_Witness ==
  /\ ~reverse
  /\ pc = "fatal"
  /\ FailingInputs # {}
  /\ FirstFailing = 2
  /\ Len(inputs) = 3
  /\ ~InputFails(inputs[3])
  /\ inputPos = 2
  /\ Len(parsedLog) = 1
  /\ written = 0

(***************************************************************************)
(* C8.  In reverse mode with a valid flat-JSON input, each of the output   *)
(* extensions .json, .env, .yaml and .yml selects a serializer and the     *)
(* run writes the output; every other extension fails the run without      *)
(* writing.  (Stated for a writable output path and an input on which      *)
(* unflatten does not fail.)                                               *)
(***************************************************************************)
C8_ReverseExtensions ==
  (/\ reverse
   /\ Len(inputs) = 1
   /\ pc \in {"print", "exit", "fatal", "panic"}
   /\ ~parseJSON(inputs[1]).err
   /\ diskOk
   /\ Panic \notin unflatten(parseJSON(inputs[1]).m))
    => IF ToLowerExt(output) \in {".json", ".env", ".yaml", ".yml"}
       THEN pc \in {"print", "exit"} /\ written = 1 /\ outFile # {}
       ELSE pc = "fatal" /\ written = 0 /\ outFile = {}

\* The same with .json left out of the extensions that select a serializer.
ReverseExtensionsImplemented ==
  (/\ reverse
   /\ Len(inputs) = 1
   /\ pc \in {"print", "exit", "fatal", "panic"}
   /\ ~parseJSON(inputs[1]).err
   /\ diskOk
   /\ Panic \notin unflatten(parseJSON(inputs[1]).m))
    => IF ToLowerExt(output) \in {".env", ".yaml", ".yml"}
       THEN pc \in {"print", "exit"} /\ written = 1 /\ outFile # {}
       ELSE pc = "fatal" /\ written = 0 /\ outFile = {}

====
